---- MODULE Spec2Model ----
(***************************************************************************)
(* ABLUnit Runner (src/extension.js): project-configuration resolution,    *)
(* propath / database-connection assembly, the RunABLUnitOnFile command,   *)
(* the external process' close callback and the loading of results.xml     *)
(* into the test controller.                                               *)
(*                                                                         *)
(* Strings that the code transforms (paths, connects, ids, line numbers)   *)
(* are sequences of one-character strings; JavaScript values are records   *)
(* tagged by their type in field t.                                        *)
(***************************************************************************)
EXTENDS Integers, Sequences, FiniteSets, TLC

\* ------------------------------------------------------------------ bounds
\* longest buildPath array of a configuration
MaxBuildPath == 3
\* longest dbConnections array of a configuration
MaxDbConnections == 3

\* ------------------------------------------------------- JavaScript values
Undefined == [t |-> "undefined"]
Null == [t |-> "null"]
Str(s) == [t |-> "string", s |-> s]
Arr(a) == [t |-> "array", a |-> a]

\* JavaScript truthiness of the values the configuration holds.
Truthy(v) ==
    CASE v.t = "undefined" -> FALSE
      [] v.t = "null" -> FALSE
      [] v.t = "string" -> v.s # <<>>
      [] OTHER -> TRUE

\* A call's outcome: a returned value, or an exception thrown to the caller.
Return(v) == [threw |-> FALSE, value |-> v]
Throw == [threw |-> TRUE, value |-> <<>>]

\* ------------------------------------------------------------ string steps
RECURSIVE ReplaceAll(_, _, _)
\* String.prototype.replace with a global literal pattern: leftmost,
\* non-overlapping occurrences of pat become rep.
ReplaceAll(s, pat, rep) ==
    IF Len(s) < Len(pat) THEN s
    ELSE IF SubSeq(s, 1, Len(pat)) = pat
         THEN rep \o ReplaceAll(SubSeq(s, Len(pat) + 1, Len(s)), pat, rep)
         ELSE <<Head(s)>> \o ReplaceAll(Tail(s), pat, rep)

EscapedSlash == <<"\\", "/">>
Slash == <<"/">>
DlcRef == <<"$", "{", "D", "L", "C", "}">>
DlcBat == <<"%", "D", "L", "C", "%">>

\* (mutant) the escaped slashes are left as they are
NormalizePathDlcOnly(p) == ReplaceAll(p, DlcRef, DlcBat)

\* The two replacements applied to a buildPath path (both entry kinds).
NormalizePath(p) == ReplaceAll(ReplaceAll(p, EscapedSlash, Slash), DlcRef, DlcBat)

RECURSIVE Join(_, _)
\* Array.prototype.join
Join(parts, sep) ==
    IF parts = <<>> THEN <<>>
    ELSE IF Len(parts) = 1 THEN parts[1]
    ELSE parts[1] \o sep \o Join(Tail(parts), sep)

RECURSIVE UniqueFrom(_, _)
\* The seen-set loop: keep the first occurrence of every non-empty element.
UniqueFrom(collected, seen) ==
    IF collected = <<>> THEN <<>>
    ELSE IF Head(collected) = <<>> \/ Head(collected) \in seen
         THEN UniqueFrom(Tail(collected), seen)
         ELSE <<Head(collected)>> \o UniqueFrom(Tail(collected), seen \cup {Head(collected)})

Unique(collected) == UniqueFrom(collected, {})

WhiteSpace == {" ", "\t", "\n"}

RECURSIVE CollapseWsEach(_)
\* (mutant) replace(/\s/g, ' '): every whitespace character becomes a space
CollapseWsEach(s) ==
    IF s = <<>> THEN <<>>
    ELSE (IF Head(s) \in WhiteSpace THEN <<" ">> ELSE <<Head(s)>>) \o CollapseWsEach(Tail(s))

RECURSIVE CollapseWs(_)
\* replace(/\s+/g, ' '): every maximal run of whitespace becomes one space.
CollapseWs(s) ==
    IF s = <<>> THEN <<>>
    ELSE IF Head(s) \in WhiteSpace
         THEN IF Len(s) > 1 /\ s[2] \in WhiteSpace
              THEN CollapseWs(Tail(s))
              ELSE <<" ">> \o CollapseWs(Tail(s))
         ELSE <<Head(s)>> \o CollapseWs(Tail(s))

RECURSIVE TrimStart(_)
TrimStart(s) ==
    IF s # <<>> /\ Head(s) \in WhiteSpace THEN TrimStart(Tail(s)) ELSE s

RECURSIVE TrimEnd(_)
TrimEnd(s) ==
    IF s # <<>> /\ s[Len(s)] \in WhiteSpace THEN TrimEnd(SubSeq(s, 1, Len(s) - 1)) ELSE s

\* String.prototype.trim
Trim(s) == TrimEnd(TrimStart(s))

\* ------------------------------------------------------ buildPropathStr
RECURSIVE FindSource(_)
\* buildPath.find(p => p.type === 'source' && p.path): the callback reads
\* p.type, which throws on a null entry.
FindSource(a) ==
    IF a = <<>> THEN Return(Undefined)
    ELSE IF Head(a).t = "null" THEN Throw
    ELSE IF Head(a).type = "source" /\ Truthy(Head(a).path) THEN Return(Head(a))
    ELSE FindSource(Tail(a))

RECURSIVE FilterPropaths(_)
\* buildPath.filter(p => p.type === 'propath' && p.path).map(normalize)
FilterPropaths(a) ==
    IF a = <<>> THEN Return(<<>>)
    ELSE IF Head(a).t = "null" THEN Throw
    ELSE LET rest == FilterPropaths(Tail(a))
         IN  IF rest.threw THEN Throw
             ELSE IF Head(a).type = "propath" /\ Truthy(Head(a).path)
                  THEN Return(<<NormalizePath(Head(a).path.s)>> \o rest.value)
                  ELSE rest

Dot == <<".">>
Comma == <<",">>

BuildPropathStr(cfg) ==
    IF cfg.t = "null" THEN Throw
    ELSE IF cfg.t = "object" /\ cfg.buildPath.t = "array"
    THEN LET src == FindSource(cfg.buildPath.a)
             propaths == FilterPropaths(cfg.buildPath.a)
             sourcePath == IF src.value.t = "object"
                           THEN NormalizePath(src.value.path.s) ELSE Dot
         IN  IF src.threw \/ propaths.threw THEN Throw
             ELSE Return(Join(Unique(<<sourcePath>> \o propaths.value), Comma))
    ELSE Return(Join(Unique(<<Dot>>), Comma))

\* ------------------------------------------- getDbConnectsSpaceSeparated
RECURSIVE RawConnects(_)
\* dbConnections.map(d => d && d.connect).filter(Boolean).map(collapse, trim)
RawConnects(a) ==
    IF a = <<>> THEN <<>>
    ELSE LET v == IF Truthy(Head(a)) THEN Head(a).connect ELSE Head(a)
         IN  IF Truthy(v)
             THEN <<Trim(CollapseWs(v.s))>> \o RawConnects(Tail(a))
             ELSE RawConnects(Tail(a))

RECURSIVE UniqueConnects(_, _)
\* The seen-set loop of getDbConnectsSpaceSeparated (no emptiness test).
UniqueConnects(raw, seen) ==
    IF raw = <<>> THEN <<>>
    ELSE IF Head(raw) \in seen THEN UniqueConnects(Tail(raw), seen)
    ELSE <<Head(raw)>> \o UniqueConnects(Tail(raw), seen \cup {Head(raw)})

NewLine == <<"\n">>

GetDbConnectsSpaceSeparated(cfg) ==
    IF ~Truthy(cfg) \/ cfg.t # "object" \/ cfg.dbConnections.t # "array" THEN <<>>
    ELSE Join(UniqueConnects(RawConnects(cfg.dbConnections.a), {}), NewLine)

\* ------------------------------------------------------------- XML (xmldom)
\* A DOM node: nodeType 1 is an element, 3 a text node; attrs is a set of
\* <<name, value>> pairs; kids are the childNodes in document order.
Elem(tag, attrs, kids) == [nodeType |-> 1, tag |-> tag, attrs |-> attrs, kids |-> kids]
Text == [nodeType |-> 3, tag |-> "#text", attrs |-> {}, kids |-> <<>>]

\* Element.getAttribute: the value, or '' when the attribute is absent.
GetAttribute(node, name) ==
    IF \E p \in node.attrs : p[1] = name
    THEN (CHOOSE p \in node.attrs : p[1] = name)[2]
    ELSE <<>>

RECURSIVE GetElementsByTagName(_, _)
\* getElementsByTagName on the children of a node: every descendant element
\* with the tag, in document (pre-) order.  Called on the kids of the
\* document it includes the root element.
GetElementsByTagName(kids, tag) ==
    IF kids = <<>> THEN <<>>
    ELSE (IF Head(kids).nodeType = 1 /\ Head(kids).tag = tag THEN <<Head(kids)>> ELSE <<>>)
         \o GetElementsByTagName(Head(kids).kids, tag)
         \o GetElementsByTagName(Tail(kids), tag)

RECURSIVE GetDirectChildrenByTag(_, _)
GetDirectChildrenByTag(kids, tagName) ==
    IF kids = <<>> THEN <<>>
    ELSE (IF Head(kids).nodeType = 1 /\ Head(kids).tag = tagName THEN <<Head(kids)>> ELSE <<>>)
         \o GetDirectChildrenByTag(Tail(kids), tagName)

\* ------------------------------------------------ loadOpenEdgeProjectConfig
\* A file of the workspace: absent, or present with its content.
Absent == [exists |-> FALSE, content |-> <<>>]
File(content) == [exists |-> TRUE, content |-> content]

\* The text of openedge-project.json: JSON.parse either throws or yields a value.
Malformed == [valid |-> FALSE, value |-> Null]
Json(v) == [valid |-> TRUE, value |-> v]

Obj(buildPath, dbConnections, extraParameters) ==
    [t |-> "object", buildPath |-> buildPath, dbConnections |-> dbConnections,
     extraParameters |-> extraParameters]
EmptyObj == Obj(Undefined, Undefined, Undefined)

BuildPathEntry(type, path) == [t |-> "object", type |-> type, path |-> path]
DbConnection(connect) == [t |-> "object", connect |-> connect]

RECURSIVE PropathEntries(_)
\* The loop over the propathentry elements of .propath.
PropathEntries(entries) ==
    IF entries = <<>> THEN <<>>
    ELSE LET pathValue == GetAttribute(Head(entries), "path")
         IN  (IF pathValue # <<>> THEN <<BuildPathEntry("propath", Str(pathValue))>> ELSE <<>>)
             \o PropathEntries(Tail(entries))

\* filePath is "none" (undefined), "inside" (a file of the workspace folder)
\* or "outside" (a file of no workspace folder).  The result is the returned
\* configuration and the file-system accesses made, in order.
LoadOpenEdgeProjectConfig(filePath, cfgF, propathF) ==
    LET hasFolder == filePath = "inside"
        seeCfg == IF hasFolder THEN <<<<"existsSync", "openedge-project.json">>>> ELSE <<>>
        readCfg == IF hasFolder /\ cfgF.exists
                   THEN <<<<"readFileSync", "openedge-project.json">>>> ELSE <<>>
        seePropath == IF hasFolder THEN <<<<"existsSync", ".propath">>>> ELSE <<>>
    IN  IF hasFolder /\ cfgF.exists /\ cfgF.content.valid
        THEN [cfg |-> cfgF.content.value, fs |-> seeCfg \o readCfg]
        ELSE IF hasFolder /\ propathF.exists
        THEN [cfg |-> Obj(Arr(PropathEntries(
                              GetElementsByTagName(<<propathF.content>>, "propathentry"))),
                          Undefined, Undefined),
              fs |-> seeCfg \o readCfg \o seePropath \o <<<<"readFileSync", ".propath">>>>]
        ELSE [cfg |-> EmptyObj, fs |-> seeCfg \o readCfg \o seePropath]

\* --------------------------------------------------------- loadAblUnitResults
UnnamedSuite == <<"UnnamedSuite">>
UnnamedTest == <<"UnnamedTest">>
TestFailed == <<"Test failed">>
UnknownError == <<"Unknown error">>
DefaultTime == <<"0.000">>
DefaultLine == <<"1">>

Or(s, default) == IF s # <<>> THEN s ELSE default

DigitValue(c) ==
    CASE c = "0" -> 0 [] c = "1" -> 1 [] c = "2" -> 2 [] c = "3" -> 3 [] c = "4" -> 4
      [] c = "5" -> 5 [] c = "6" -> 6 [] c = "7" -> 7 [] c = "8" -> 8 [] c = "9" -> 9

RECURSIVE ParseInt(_)
\* parseInt(s, 10) of a string of decimal digits.
ParseInt(s) ==
    IF s = <<>> THEN 0 ELSE 10 * ParseInt(SubSeq(s, 1, Len(s) - 1)) + DigitValue(s[Len(s)])

\* TestItemCollection.add: an item with the same id is replaced.
AddItem(collection, item) == {x \in collection : x.id # item.id} \cup {item}

\* The tag of the nested element looked up for a failed test: testStatus.toLowerCase()
\* (only ever applied to "Error" and "Failure").
ToLowerCase(testStatus) == IF testStatus = <<"Error">> THEN "error" ELSE "failure"

\* (mutant) the range keeps the 1-based line
LoadTestCaseOneBased(suiteId, testNode, where) ==
    LET testName == Or(GetAttribute(testNode, "name"), UnnamedTest)
        testLine == ParseInt(Or(GetAttribute(testNode, "line"), DefaultLine))
        testTime == Or(GetAttribute(testNode, "time"), DefaultTime)
        testStatus == GetAttribute(testNode, "status")
        testId == suiteId \o <<":">> \o testName
        testItem == [id |-> testId, label |-> testName \o <<" (">> \o testTime \o <<")">>,
                     line |-> testLine]
        errorNodes == GetElementsByTagName(testNode.kids, ToLowerCase(testStatus))
    IN  IF testStatus = <<"Success">>
        THEN [threw |-> FALSE, item |-> testItem,
              outcome |-> <<[node |-> where, test |-> testId, result |-> "passed",
                             message |-> <<>>, type |-> <<>>]>>]
        ELSE IF testStatus = <<"Error">> \/ testStatus = <<"Failure">>
        THEN IF errorNodes = <<>>
             THEN [threw |-> TRUE, item |-> testItem, outcome |-> <<>>]
             ELSE [threw |-> FALSE, item |-> testItem,
                   outcome |-> <<[node |-> where, test |-> testId, result |-> "failed",
                                  message |-> Or(GetAttribute(errorNodes[1], "message"), TestFailed),
                                  type |-> Or(GetAttribute(errorNodes[1], "type"), UnknownError)]>>]
        ELSE [threw |-> FALSE, item |-> testItem, outcome |-> <<>>]

\* (mutant) a plain else: every status but Success is reported as failed
LoadTestCaseElseFailed(suiteId, testNode, where) ==
    LET testName == Or(GetAttribute(testNode, "name"), UnnamedTest)
        testLine == ParseInt(Or(GetAttribute(testNode, "line"), DefaultLine))
        testTime == Or(GetAttribute(testNode, "time"), DefaultTime)
        testStatus == GetAttribute(testNode, "status")
        testId == suiteId \o <<":">> \o testName
        testItem == [id |-> testId, label |-> testName \o <<" (">> \o testTime \o <<")">>,
                     line |-> testLine - 1]
        errorNodes == GetElementsByTagName(testNode.kids, ToLowerCase(testStatus))
    IN  IF testStatus = <<"Success">>
        THEN [threw |-> FALSE, item |-> testItem,
              outcome |-> <<[node |-> where, test |-> testId, result |-> "passed",
                             message |-> <<>>, type |-> <<>>]>>]
        ELSE IF testStatus = <<"Error">> \/ testStatus = <<"Failure">>
        THEN IF errorNodes = <<>>
             THEN [threw |-> TRUE, item |-> testItem, outcome |-> <<>>]
             ELSE [threw |-> FALSE, item |-> testItem,
                   outcome |-> <<[node |-> where, test |-> testId, result |-> "failed",
                                  message |-> Or(GetAttribute(errorNodes[1], "message"), TestFailed),
                                  type |-> Or(GetAttribute(errorNodes[1], "type"), UnknownError)]>>]
        ELSE [threw |-> FALSE, item |-> testItem,
              outcome |-> <<[node |-> where, test |-> testId, result |-> "failed",
                             message |-> TestFailed, type |-> UnknownError]>>]

\* One iteration of the testcase loop: the created test item, and either the
\* outcome reported to the run ("none" when nothing is reported) or a throw.
LoadTestCase(suiteId, testNode, where) ==
    LET testName == Or(GetAttribute(testNode, "name"), UnnamedTest)
        testLine == ParseInt(Or(GetAttribute(testNode, "line"), DefaultLine))
        testTime == Or(GetAttribute(testNode, "time"), DefaultTime)
        testStatus == GetAttribute(testNode, "status")
        testId == suiteId \o <<":">> \o testName
        testItem == [id |-> testId, label |-> testName \o <<" (">> \o testTime \o <<")">>,
                     line |-> testLine - 1]
        errorNodes == GetElementsByTagName(testNode.kids, ToLowerCase(testStatus))
    IN  IF testStatus = <<"Success">>
        THEN [threw |-> FALSE, item |-> testItem,
              outcome |-> <<[node |-> where, test |-> testId, result |-> "passed",
                             message |-> <<>>, type |-> <<>>]>>]
        ELSE IF testStatus = <<"Error">> \/ testStatus = <<"Failure">>
        THEN IF errorNodes = <<>>
             THEN [threw |-> TRUE, item |-> testItem, outcome |-> <<>>]
             ELSE [threw |-> FALSE, item |-> testItem,
                   outcome |-> <<[node |-> where, test |-> testId, result |-> "failed",
                                  message |-> Or(GetAttribute(errorNodes[1], "message"), TestFailed),
                                  type |-> Or(GetAttribute(errorNodes[1], "type"), UnknownError)]>>]
        ELSE [threw |-> FALSE, item |-> testItem, outcome |-> <<>>]

RECURSIVE LoadTestCases(_, _, _, _)
\* The inner loop over the direct testcase children of suite number i, from
\* testcase number j on: the children added to the suite item, the outcomes
\* reported, and whether an iteration threw (which ends the load).
LoadTestCases(suiteId, testCaseNodes, i, j) ==
    IF j > Len(testCaseNodes) THEN [threw |-> FALSE, children |-> {}, outcomes |-> <<>>]
    ELSE LET one == LoadTestCase(suiteId, testCaseNodes[j], <<i, j>>)
             rest == LoadTestCases(suiteId, testCaseNodes, i, j + 1)
         IN  IF one.threw
             THEN [threw |-> TRUE, children |-> {one.item}, outcomes |-> <<>>]
             ELSE [threw |-> rest.threw,
                   children |-> IF \E x \in rest.children : x.id = one.item.id
                                THEN rest.children ELSE rest.children \cup {one.item},
                   outcomes |-> one.outcome \o rest.outcomes]

RECURSIVE LoadSuites(_, _, _)
\* The outer loop over the testsuite elements, from suite number i on,
\* starting with the root items so far.
LoadSuites(testSuites, i, rootItems) ==
    IF i > Len(testSuites) THEN [threw |-> FALSE, items |-> rootItems, outcomes |-> <<>>]
    ELSE LET suiteNode == testSuites[i]
             suiteName == Or(GetAttribute(suiteNode, "classname"), UnnamedSuite)
             suiteId == GetAttribute(suiteNode, "id")
             cases == LoadTestCases(suiteId, GetDirectChildrenByTag(suiteNode.kids, "testcase"), i, 1)
             suiteItem == [id |-> suiteId, label |-> suiteName, children |-> cases.children]
             added == AddItem(rootItems, suiteItem)
         IN  IF cases.threw
             THEN [threw |-> TRUE, items |-> added, outcomes |-> cases.outcomes]
             ELSE LET rest == LoadSuites(testSuites, i + 1, added)
                  IN  [threw |-> rest.threw, items |-> rest.items,
                       outcomes |-> cases.outcomes \o rest.outcomes]

\* loadAblUnitResults on the results.xml file f: the controller's root items
\* afterwards, the outcomes reported to the run, and whether it threw.
\* The root items are cleared before the file is read.
LoadAblUnitResults(f) ==
    IF ~f.content.readable THEN [threw |-> TRUE, items |-> {}, outcomes |-> <<>>]
    ELSE LoadSuites(GetElementsByTagName(<<f.content.doc>>, "testsuite"), 1, {})

\* ------------------------------------------------------------------- state
\* The two directories a run can work in: the workspace folder ("ws", for a
\* file inside it) and the directory of a file of no workspace folder ("ext").
Workdirs == {"ws", "ext"}

VARIABLES
    cfgFile,        \* openedge-project.json of the workspace folder
    propathFile,    \* .propath of the workspace folder
    scratch,        \* per workdir: its .ablunitrunner folder (dbconn.pf, extra.pf, results.xml)
    dlcEnv,         \* whether the DLC environment variable is set
    procs,          \* per workdir: the external processes spawned and not yet closed
    command,        \* the command string of the latest spawn
    call,           \* the latest entry-point call and whether an exception escaped it
    events,         \* the effects of the latest entry-point call, in order
    projectCfg,     \* locals of the latest RunABLUnitOnFile call (Undefined: not assigned)
    propathStr,
    dbConnectStr,
    items,          \* controller.items
    outcomes,       \* run.passed / run.failed calls of the latest close callback
    run             \* the test run of the latest close callback: "none", "open", "ended"

vars == <<cfgFile, propathFile, scratch, dlcEnv, procs, command, call, events,
          projectCfg, propathStr, dbConnectStr, items, outcomes, run>>

\* most processes running at the same time
MaxProcs == 1

Running == procs["ws"] + procs["ext"]

NoDir == [exists |-> FALSE, dbconn |-> Absent, extra |-> Absent, results |-> Absent]

Call(name, resource, workdir, code, escaped) ==
    [name |-> name, resource |-> resource, workdir |-> workdir, code |-> code,
     escaped |-> escaped]

\* (mutant) the catch of the try block does not return: a failed call is
\* followed by the spawn
WriteScratchCarryOn(dir, dbText, extraText, fault) ==
    LET see == <<<<"existsSync", ".ablunitrunner">>>>
        made == [dir EXCEPT !.exists = TRUE]
    IN  IF fault = "none"
        THEN [ok |-> TRUE,
              dir |-> [made EXCEPT !.dbconn = File(dbText), !.extra = File(extraText)],
              events |-> see \o <<<<"writeFileSync", "dbconn.pf">>,
                                   <<"writeFileSync", "extra.pf">>>>]
        ELSE [ok |-> TRUE, dir |-> dir, events |-> see]

\* The try block of the command handler that fills the scratch folder; fault
\* names the file-system call that throws ("none": no call does).  The result
\* is the folder afterwards, the effects, and whether the block completed.
WriteScratch(dir, dbText, extraText, fault) ==
    LET see == <<<<"existsSync", ".ablunitrunner">>>>
        made == [dir EXCEPT !.exists = TRUE]
        withDb == [made EXCEPT !.dbconn = File(dbText)]
        withExtra == [withDb EXCEPT !.extra = File(extraText)]
    IN  IF ~dir.exists /\ fault = "mkdirSync"
        THEN [ok |-> FALSE, dir |-> dir, events |-> see]
        ELSE LET mk == IF dir.exists THEN <<>> ELSE <<<<"mkdirSync", ".ablunitrunner">>>>
             IN  IF fault = "dbconn.pf"
                 THEN [ok |-> FALSE, dir |-> made, events |-> see \o mk]
                 ELSE IF fault = "extra.pf"
                 THEN [ok |-> FALSE, dir |-> withDb,
                       events |-> see \o mk \o <<<<"writeFileSync", "dbconn.pf">>>>]
                 ELSE [ok |-> TRUE, dir |-> withExtra,
                       events |-> see \o mk \o <<<<"writeFileSync", "dbconn.pf">>,
                                                 <<"writeFileSync", "extra.pf">>>>]

\* The command handler registered as ABLUnitRunner.RunABLUnitOnFile.
RunABLUnitOnFile(resource, fault) ==
    LET workdir == IF resource = "inside" THEN "ws" ELSE "ext"
        quiet == /\ UNCHANGED <<cfgFile, propathFile, dlcEnv, items, outcomes, run>>
        ExtraParams(cfg) == IF cfg.t = "object" /\ Truthy(cfg.extraParameters)
                            THEN cfg.extraParameters.s ELSE <<>>
    IN  \E load \in {LoadOpenEdgeProjectConfig(resource, cfgFile, propathFile)} :
        \E cfg \in {load.cfg} :
        \E propath \in {BuildPropathStr(cfg)} :
        \E db \in {GetDbConnectsSpaceSeparated(cfg)} :
        \E written \in {WriteScratch(scratch[workdir], db, ExtraParams(cfg), fault)} :
        /\ Running < MaxProcs
        /\ quiet
        /\ IF resource = "none"
           THEN /\ events' = <<<<"showInformationMessage", "ABLUnit: No file selected">>>>
                /\ call' = Call("RunABLUnitOnFile", resource, workdir, 0, FALSE)
                /\ projectCfg' = Undefined /\ propathStr' = Undefined
                /\ dbConnectStr' = Undefined
                /\ UNCHANGED <<scratch, procs, command>>
           ELSE IF ~dlcEnv
           THEN /\ events' = load.fs \o
                       <<<<"showErrorMessage", "Environment variable DLC is not set">>>>
                /\ call' = Call("RunABLUnitOnFile", resource, workdir, 0, FALSE)
                /\ projectCfg' = cfg /\ propathStr' = Undefined
                /\ dbConnectStr' = Undefined
                /\ UNCHANGED <<scratch, procs, command>>
           ELSE IF cfg.t = "null" \/ propath.threw
           THEN /\ events' = load.fs
                /\ call' = Call("RunABLUnitOnFile", resource, workdir, 0, TRUE)
                /\ projectCfg' = cfg /\ propathStr' = Undefined
                /\ dbConnectStr' = Undefined
                /\ UNCHANGED <<scratch, procs, command>>
           ELSE /\ call' = Call("RunABLUnitOnFile", resource, workdir, 0, FALSE)
                /\ projectCfg' = cfg
                /\ propathStr' = Str(propath.value)
                /\ dbConnectStr' = Str(db)
                /\ scratch' = [scratch EXCEPT ![workdir] = written.dir]
                /\ IF written.ok
                   THEN /\ events' = load.fs \o written.events \o
                               <<<<"spawn", "run_ABLUNIT.bat">>,
                                 <<"showInformationMessage", "Executing command">>>>
                        /\ procs' = [procs EXCEPT ![workdir] = @ + 1]
                        /\ command' = [workdir |-> workdir,
                                       propath |-> IF propath.value # <<>>
                                                   THEN Str(propath.value) ELSE Undefined,
                                       dlc |-> TRUE]
                   ELSE /\ events' = load.fs \o written.events \o
                               <<<<"showErrorMessage", "Failed to write to .ablunitrunner folder">>>>
                        /\ UNCHANGED <<procs, command>>

\* run_ABLUNIT.bat: the interpreter writes its report to .ablunitrunner of the
\* workdir while the process runs.
ScriptWritesResults(w, report) ==
    /\ procs[w] > 0
    /\ scratch[w].exists
    /\ scratch' = [scratch EXCEPT ![w].results = File(report)]
    /\ UNCHANGED <<cfgFile, propathFile, dlcEnv, procs, command, call, events,
                   projectCfg, propathStr, dbConnectStr, items, outcomes, run>>

\* (mutant) the items of the earlier load are not cleared before the new ones are added
ReadResultsXmlKeepOld(results, oldItems) ==
    LET loaded == LoadAblUnitResults(results)
        kept == {x \in oldItems : \A y \in loaded.items : y.id # x.id} \cup loaded.items
        start == <<<<"showInformationMessage", "Refreshing ABLUnit results...">>,
                   <<"existsSync", "results.xml">>>>
    IN  IF ~results.exists
        THEN [threw |-> FALSE, items |-> oldItems, outcomes |-> <<>>, run |-> "none",
              events |-> start \o <<<<"showErrorMessage", "results.xml not found">>>>]
        ELSE [threw |-> loaded.threw, items |-> kept, outcomes |-> loaded.outcomes,
              run |-> IF loaded.threw THEN "open" ELSE "ended",
              events |-> start \o <<<<"createTestRun", "">>,
                                    <<"loadAblUnitResults", "results.xml">>>>
                        \o (IF loaded.threw THEN <<>>
                            ELSE <<<<"run.end", "">>,
                                   <<"showInformationMessage", "ABLUnit results refreshed.">>>>)]

\* (mutant) a missing results.xml is passed over in silence
ReadResultsXmlSilent(results, oldItems) ==
    LET loaded == LoadAblUnitResults(results)
        start == <<<<"showInformationMessage", "Refreshing ABLUnit results...">>,
                   <<"existsSync", "results.xml">>>>
    IN  IF ~results.exists
        THEN [threw |-> FALSE, items |-> oldItems, outcomes |-> <<>>, run |-> "none",
              events |-> start]
        ELSE [threw |-> loaded.threw, items |-> loaded.items, outcomes |-> loaded.outcomes,
              run |-> IF loaded.threw THEN "open" ELSE "ended",
              events |-> start \o <<<<"createTestRun", "">>,
                                    <<"loadAblUnitResults", "results.xml">>>>]

\* readResultsXml(outputFolder), bound as the onCloseCommand of the spawn: the
\* effects, the controller's items, the outcomes and the run afterwards, and
\* whether it threw.
ReadResultsXml(results, oldItems) ==
    LET loaded == LoadAblUnitResults(results)
        start == <<<<"showInformationMessage", "Refreshing ABLUnit results...">>,
                   <<"existsSync", "results.xml">>>>
    IN  IF ~results.exists
        THEN [threw |-> FALSE, items |-> oldItems, outcomes |-> <<>>, run |-> "none",
              events |-> start \o <<<<"showErrorMessage", "results.xml not found">>>>]
        ELSE IF loaded.threw
        THEN [threw |-> TRUE, items |-> loaded.items, outcomes |-> loaded.outcomes,
              run |-> "open",
              events |-> start \o <<<<"createTestRun", "">>, <<"loadAblUnitResults", "results.xml">>>>]
        ELSE [threw |-> FALSE, items |-> loaded.items, outcomes |-> loaded.outcomes,
              run |-> "ended",
              events |-> start \o <<<<"createTestRun", "">>, <<"loadAblUnitResults", "results.xml">>,
                                    <<"run.end", "">>,
                                    <<"showInformationMessage", "ABLUnit results refreshed.">>>>]

\* The 'close' listener of executeCommandString for a process of workdir w
\* that exits with the given code.
ProcessClose(w, code) ==
    LET msg == IF code = 0 THEN "Run completed successfully"
               ELSE "Run completed with exit code"
    IN  \E read \in {ReadResultsXml(scratch[w].results, items)} :
        /\ procs[w] > 0
        /\ procs' = [procs EXCEPT ![w] = @ - 1]
        /\ events' = <<<<"showInformationMessage", msg>>>> \o read.events \o
               (IF read.threw
                THEN <<<<"console.error", "Failed to execute onCloseCommand">>>> ELSE <<>>)
        /\ items' = read.items
        /\ outcomes' = read.outcomes
        /\ run' = read.run
        /\ call' = Call("close", "none", w, code, FALSE)
        /\ UNCHANGED <<cfgFile, propathFile, scratch, dlcEnv, command,
                       projectCfg, propathStr, dbConnectStr>>

\* The 'error' listener of executeCommandString: the process could not be started.
ProcessError(w) ==
    /\ procs[w] > 0
    /\ events' = <<<<"showErrorMessage", "Failed to run ABLUnit">>>>
    /\ call' = Call("error", "none", w, 0, FALSE)
    /\ UNCHANGED <<cfgFile, propathFile, scratch, dlcEnv, procs, command,
                   projectCfg, propathStr, dbConnectStr, items, outcomes, run>>

\* ------------------------------------------------------------ input pools
SeqsUpTo(S, n) == UNION {[1..k -> S] : k \in 0..n}

Number == [t |-> "number"]

\* paths of buildPath entries: empty, the default, a plain path, the same
\* path with an escaped slash, and the DLC reference in both spellings
PathPool == {<<>>, Dot, <<"a", "/", "b">>, <<"a", "\\", "/", "b">>, DlcRef, DlcBat}

BuildPathEntries ==
    {BuildPathEntry(type, path) :
        type \in {"source", "propath"}, path \in {Undefined} \cup {Str(p) : p \in PathPool}}
    \cup {BuildPathEntry("other", Str(<<"x">>)), Null}

\* connects: empty, blank, and one connection written with different whitespace
ConnectPool == {<<>>, <<" ">>, <<"a", " ", "b">>, <<"a", " ", "\t", "b">>,
                <<" ", "a", "\n", "b", " ">>, <<"a", "b">>, <<"b">>}

DbEntries ==
    {DbConnection(c) : c \in {Undefined} \cup {Str(x) : x \in ConnectPool}} \cup {Null}

\* configurations that differ in their buildPath
BuildPathConfigs ==
    {Obj(Arr(a), Undefined, Undefined) : a \in SeqsUpTo(BuildPathEntries, MaxBuildPath)}
    \cup {Null, Number, EmptyObj, Obj(Str(<<"x">>), Undefined, Undefined)}

\* configurations that differ in their dbConnections
DbConfigs ==
    {Obj(Undefined, Arr(a), Undefined) : a \in SeqsUpTo(DbEntries, MaxDbConnections)}
    \cup {Null, Number, EmptyObj, Obj(Undefined, Str(<<"x">>), Undefined)}

\* the contents of openedge-project.json of the whole-program specification
SampleConfig ==
    Obj(Arr(<<BuildPathEntry("source", Str(<<"s">>)), BuildPathEntry("propath", Str(DlcRef))>>),
        Arr(<<DbConnection(Str(<<"a", " ", " ", "b">>))>>),
        Str(<<"-", "q">>))
NullEntriesConfig == Obj(Arr(<<Null>>), Arr(<<Null>>), Undefined)

ConfigFiles ==
    {Absent, File(Malformed)}
    \cup {File(Json(v)) : v \in {Null, Number, EmptyObj, SampleConfig, NullEntriesConfig}}

\* .propath documents: <propath> with entries, some without a usable path,
\* one nested in another element, and text between them
MaxPropathKids == 2

PropathEntry(p) == Elem("propathentry", {<<"path", p>>, <<"kind", <<"src">>>>}, <<>>)
PropathKids ==
    {PropathEntry(<<"l", "i", "b">>), PropathEntry(DlcRef), PropathEntry(<<>>),
     Elem("propathentry", {<<"kind", <<"src">>>>}, <<>>),
     Elem("group", {}, <<PropathEntry(<<"i", "n">>)>>),
     Text}
PropathDocs == {Elem("propath", {}, kids) : kids \in SeqsUpTo(PropathKids, MaxPropathKids)}
PropathFiles == {Absent} \cup {File(d) : d \in PropathDocs}

\* results.xml documents
MaxSuiteKids == 2

Report(doc) == [readable |-> TRUE, doc |-> doc]
Unreadable == [readable |-> FALSE, doc |-> Text]

TestCase(attrs, kids) == Elem("testcase", attrs, kids)
TcPassed == TestCase({<<"name", <<"t1">>>>, <<"line", <<"3">>>>, <<"status", <<"Success">>>>}, <<>>)
TcFailed ==
    TestCase({<<"name", <<"t2">>>>, <<"status", <<"Failure">>>>, <<"time", <<"0.5">>>>},
             <<Elem("failure", {<<"message", <<"m">>>>, <<"type", <<"T">>>>}, <<Text>>)>>)
TcError ==
    TestCase({<<"name", <<"t1">>>>, <<"line", <<"1", "2">>>>, <<"status", <<"Error">>>>},
             <<Text, Elem("error", {}, <<>>)>>)
TcErrorBare == TestCase({<<"name", <<"t3">>>>, <<"status", <<"Error">>>>}, <<>>)
TcIgnored == TestCase({<<"status", <<"Ignored">>>>}, <<Elem("skipped", {}, <<>>)>>)
TcNoStatus == TestCase({<<"name", <<"t2">>>>, <<"line", <<"7">>>>}, <<>>)
TestCases == {TcPassed, TcFailed, TcError, TcErrorBare, TcIgnored, TcNoStatus}

Suite(attrs, kids) == Elem("testsuite", attrs, kids)
InnerSuites ==
    {Suite({<<"id", <<"1">>>>, <<"classname", <<"B">>>>}, <<TcPassed>>),
     Suite({<<"id", <<"0">>>>}, <<TcFailed>>)}
SuiteKids ==
    TestCases \cup InnerSuites \cup {Elem("properties", {}, <<TcPassed>>), Text}
SuiteAttrs ==
    {{<<"id", <<"0">>>>, <<"classname", <<"A">>>>, <<"name", <<"A.cls">>>>},
     {<<"id", <<"1">>>>, <<"classname", <<"A">>>>},
     {}}
FirstSuites == {Suite(a, kids) : a \in SuiteAttrs, kids \in SeqsUpTo(SuiteKids, MaxSuiteKids)}
SecondSuites ==
    {<<>>,
     <<Suite({<<"id", <<"2">>>>, <<"classname", <<"C">>>>}, <<TcNoStatus>>)>>,
     <<Text, Suite({<<"id", <<"0">>>>, <<"classname", <<"D">>>>}, <<TcPassed>>)>>}
Reports ==
    {Report(Elem("testsuites", {}, <<first>> \o second)) :
        first \in FirstSuites, second \in SecondSuites}
    \cup {Report(Elem("testsuites", {}, <<>>)), Unreadable}

\* the reports of the whole-program specification
SampleReports ==
    {Report(Elem("testsuites", {},
                 <<Suite({<<"id", <<"0">>>>, <<"classname", <<"A">>>>}, <<TcPassed, TcFailed>>)>>)),
     Report(Elem("testsuites", {},
                 <<Suite({<<"id", <<"0">>>>, <<"classname", <<"A">>>>}, <<TcErrorBare>>)>>)),
     Unreadable}

\* root items left by an earlier load
StaleItems == {[id |-> <<"9">>, label |-> <<"Old">>, children |-> {}]}

\* ---------------------------------------------------------- specifications
NoCommand == [workdir |-> "none", propath |-> Undefined, dlc |-> FALSE]

Quiescent ==
    /\ procs = [w \in Workdirs |-> 0]
    /\ command = NoCommand
    /\ call = Call("none", "none", "ws", 0, FALSE)
    /\ events = <<>>
    /\ projectCfg = Undefined
    /\ propathStr = Undefined
    /\ dbConnectStr = Undefined
    /\ outcomes = <<>>
    /\ run = "none"

\* The extension after activation, in a workspace whose files and environment
\* are any of the sample contents.
Init ==
    /\ cfgFile \in ConfigFiles
    /\ propathFile \in {Absent, File(Elem("propath", {}, <<PropathEntry(<<"l", "i", "b">>)>>))}
    /\ scratch \in {[w \in Workdirs |-> NoDir],
                    [w \in Workdirs |->
                        IF w = "ws"
                        THEN [exists |-> TRUE, dbconn |-> File(<<>>), extra |-> File(<<>>),
                              results |-> File(CHOOSE r \in SampleReports :
                                                   r.readable /\ r.doc.kids[1].kids = <<TcPassed, TcFailed>>)]
                        ELSE NoDir]}
    /\ dlcEnv \in BOOLEAN
    /\ items = {}
    /\ Quiescent

Next ==
    \/ \E resource \in {"none", "inside", "outside"},
          fault \in {"none", "mkdirSync", "dbconn.pf", "extra.pf"} :
            RunABLUnitOnFile(resource, fault)
    \/ \E w \in Workdirs, report \in SampleReports : ScriptWritesResults(w, report)
    \/ \E w \in Workdirs, code \in {0, 1} : ProcessClose(w, code)
    \/ \E w \in Workdirs : ProcessError(w)

Spec == Init /\ [][Next]_vars

\* loadOpenEdgeProjectConfig over the contents of the two project files.
InitConfig ==
    /\ cfgFile \in ConfigFiles
    /\ propathFile \in PropathFiles
    /\ scratch = [w \in Workdirs |-> NoDir]
    /\ dlcEnv = TRUE
    /\ items = {}
    /\ Quiescent

NextConfig ==
    \E resource \in {"none", "inside", "outside"} : RunABLUnitOnFile(resource, "none")

SpecConfig == InitConfig /\ [][NextConfig]_vars

\* buildPropathStr over the buildPath arrays.
InitPropath ==
    /\ cfgFile \in {File(Json(v)) : v \in BuildPathConfigs}
    /\ propathFile = Absent
    /\ scratch = [w \in Workdirs |-> NoDir]
    /\ dlcEnv = TRUE
    /\ items = {}
    /\ Quiescent

NextPropath == RunABLUnitOnFile("inside", "none")

SpecPropath == InitPropath /\ [][NextPropath]_vars

\* getDbConnectsSpaceSeparated over the dbConnections arrays.
InitDb ==
    /\ cfgFile \in {File(Json(v)) : v \in DbConfigs}
    /\ propathFile = Absent
    /\ scratch = [w \in Workdirs |-> NoDir]
    /\ dlcEnv = TRUE
    /\ items = {}
    /\ Quiescent

NextDb == RunABLUnitOnFile("inside", "none")

SpecDb == InitDb /\ [][NextDb]_vars

\* The close callback over the reports, with a process of the workspace
\* running and the controller empty or holding the items of an earlier load.
InitLoad ==
    /\ cfgFile = Absent
    /\ propathFile = Absent
    /\ scratch \in {[w \in Workdirs |->
                        IF w = "ws"
                        THEN [exists |-> TRUE, dbconn |-> File(<<>>), extra |-> File(<<>>),
                              results |-> File(r)]
                        ELSE NoDir] : r \in Reports}
    /\ dlcEnv = TRUE
    /\ items \in {{}, StaleItems}
    /\ procs = [w \in Workdirs |-> IF w = "ws" THEN 1 ELSE 0]
    /\ command = [workdir |-> "ws", propath |-> Str(Dot), dlc |-> TRUE]
    /\ call = Call("RunABLUnitOnFile", "inside", "ws", 0, FALSE)
    /\ events = <<>>
    /\ projectCfg = EmptyObj
    /\ propathStr = Str(Dot)
    /\ dbConnectStr = Str(<<>>)
    /\ outcomes = <<>>
    /\ run = "none"

NextLoad == \E code \in {0, 1} : ProcessClose("ws", code)

SpecLoad == InitLoad /\ [][NextLoad]_vars

\* ------------------------------------------------------------- properties
\* The latest entry-point call was the command, run on a file of the workspace.
RanCommand == call.name = "RunABLUnitOnFile" /\ call.resource = "inside"

Happened(kind, detail) == \E i \in 1..Len(events) : events[i] = <<kind, detail>>
Before(e1, e2) ==
    \E i, j \in 1..Len(events) : i < j /\ events[i] = e1 /\ events[j] = e2

RECURSIVE KeepFirst(_, _)
\* The elements s[i..] that do not occur earlier in s.
KeepFirst(s, i) ==
    IF i > Len(s) THEN <<>>
    ELSE (IF \E j \in 1..(i - 1) : s[j] = s[i] THEN <<>> ELSE <<s[i]>>) \o KeepFirst(s, i + 1)

\* The path attributes of the propathentry elements of the sample .propath
\* documents, read off their shape: the entries are children of the root or
\* of a child of the root.
RECURSIVE PathsOfKids(_)
PathsOfKids(kids) ==
    IF kids = <<>> THEN <<>>
    ELSE LET k == Head(kids)
             own == IF k.tag = "propathentry" /\ \E a \in k.attrs : a[1] = "path" /\ a[2] # <<>>
                    THEN <<(CHOOSE a \in k.attrs : a[1] = "path")[2]>> ELSE <<>>
         IN  own \o PathsOfKids(k.kids) \o PathsOfKids(Tail(kids))

\* C1 (as claimed): for a file inside the workspace folder, an existing
\* openedge-project.json is what is returned and .propath is then not
\* consulted; .propath is consulted only when openedge-project.json is absent,
\* and then buildPath holds one propath entry per propathentry element with a
\* non-empty path, in document order.
C1_ConfigPreferred ==
    RanCommand =>
        /\ cfgFile.exists =>
              /\ cfgFile.content.valid => projectCfg = cfgFile.content.value
              /\ ~Happened("readFileSync", ".propath")
        /\ (~cfgFile.exists /\ propathFile.exists) =>
              /\ Happened("readFileSync", ".propath")
              /\ projectCfg.buildPath.t = "array"
              /\ LET bp == projectCfg.buildPath.a
                     paths == PathsOfKids(<<propathFile.content>>)
                 IN  /\ Len(bp) = Len(paths)
                     /\ \A i \in 1..Len(bp) : bp[i] = BuildPathEntry("propath", Str(paths[i]))

\* What holds of loadOpenEdgeProjectConfig when the malformed file is set
\* aside: the claim of C1 for a file that is absent or parses.
C1_WhenParsable ==
    (cfgFile.exists => cfgFile.content.valid) => C1_ConfigPreferred

\* The entries of a buildPath array that name a path.
HasPath(e) == e.t = "object" /\ e.path.t = "string" /\ e.path.s # <<>>
NoNullEntries(cfg) ==
    /\ cfg.t # "null"
    /\ (cfg.t = "object" /\ cfg.buildPath.t = "array") =>
           \A i \in 1..Len(cfg.buildPath.a) : cfg.buildPath.a[i].t # "null"

\* The elements the propath string is made of, before duplicates are dropped:
\* the path of the first source entry with a path (else '.'), then the paths of
\* the propath entries with a path, each rewritten by Rewrite.
PropathElements(cfg, Rewrite(_)) ==
    IF cfg.t = "object" /\ cfg.buildPath.t = "array"
    THEN LET a == cfg.buildPath.a
             sources == {i \in 1..Len(a) : HasPath(a[i]) /\ a[i].type = "source"}
             first == CHOOSE i \in sources : \A j \in sources : i <= j
             propaths == SelectSeq(a, LAMBDA e : HasPath(e) /\ e.type = "propath")
         IN  <<IF sources = {} THEN Dot ELSE Rewrite(a[first].path.s)>>
             \o [i \in 1..Len(propaths) |-> Rewrite(propaths[i].path.s)]
    ELSE <<Dot>>

DlcOnly(p) == ReplaceAll(p, DlcRef, DlcBat)
SlashesAndDlc(p) == ReplaceAll(ReplaceAll(p, EscapedSlash, Slash), DlcRef, DlcBat)

RECURSIVE Words(_, _)
Words(s, word) ==
    IF s = <<>> THEN (IF word = <<>> THEN <<>> ELSE <<word>>)
    ELSE IF Head(s) \in WhiteSpace
         THEN (IF word = <<>> THEN <<>> ELSE <<word>>) \o Words(Tail(s), <<>>)
         ELSE Words(Tail(s), Append(word, Head(s)))

\* The connect values of a dbConnections array: the non-empty connect strings
\* of its entries, each as its words separated by single spaces.
ConnectValues(a) ==
    LET with == SelectSeq(a, LAMBDA d : d.t = "object" /\ d.connect.t = "string"
                                          /\ d.connect.s # <<>>)
    IN  [i \in 1..Len(with) |-> Join(Words(with[i].connect.s, <<>>), <<" ">>)]

\* C3: getDbConnectsSpaceSeparated returns the connect values, whitespace runs
\* collapsed to one space and trimmed, one per line, each at its first
\* occurrence and none twice; the empty string when dbConnections is missing
\* or not an array.
C3_DbConnects ==
    (RanCommand /\ projectCfg.t # "null") =>
        /\ ~call.escaped
        /\ dbConnectStr =
              Str(IF projectCfg.t = "object" /\ projectCfg.dbConnections.t = "array"
                  THEN Join(KeepFirst(ConnectValues(projectCfg.dbConnections.a), 1), NewLine)
                  ELSE <<>>)

\* Three connections, the first and the last differing only in whitespace:
\* two lines are written.
C3_Witness ==
    /\ RanCommand
    /\ projectCfg.t = "object" /\ projectCfg.dbConnections.t = "array"
    /\ projectCfg.dbConnections.a =
           <<DbConnection(Str(<<"a", " ", "\t", "b">>)), DbConnection(Str(<<"b">>)),
             DbConnection(Str(<<" ", "a", "\n", "b", " ">>))>>
    /\ dbConnectStr = Str(<<"a", " ", "b", "\n", "b">>)

\* The latest call was the command and it spawned the external script.
Spawned == call.name = "RunABLUnitOnFile" /\ Happened("spawn", "run_ABLUNIT.bat")
WriteFailed == Happened("showErrorMessage", "Failed to write to .ablunitrunner folder")

\* C4 (as claimed): the script is spawned only after the search-path string and
\* the connection list have both been written to files of the scratch folder;
\* after a failed write it is not spawned.
C4_BothArtifactsWritten ==
    /\ Spawned =>
          LET dir == scratch[call.workdir]
          IN  /\ dir.dbconn = File(dbConnectStr.s)
              /\ \E f \in {dir.dbconn, dir.extra} : f = File(propathStr.s)
    /\ WriteFailed => ~Happened("spawn", "run_ABLUNIT.bat")

\* C4 (amended): the script is spawned only after the connection list has been
\* written to dbconn.pf and the configuration's extra parameters to extra.pf;
\* the search-path string is written to no file, it is passed on the command
\* line; after a failed write the script is not spawned.
C4_ScratchWrittenFirst ==
    /\ Spawned =>
          LET dir == scratch[call.workdir]
          IN  /\ Before(<<"writeFileSync", "dbconn.pf">>, <<"spawn", "run_ABLUNIT.bat">>)
              /\ Before(<<"writeFileSync", "extra.pf">>, <<"spawn", "run_ABLUNIT.bat">>)
              /\ dir.exists
              /\ dir.dbconn = File(dbConnectStr.s)
              /\ dir.extra = File(IF projectCfg.t = "object" /\ projectCfg.extraParameters.t = "string"
                                  THEN projectCfg.extraParameters.s ELSE <<>>)
              /\ \A i \in 1..Len(events) :
                    events[i][1] = "writeFileSync" => events[i][2] \in {"dbconn.pf", "extra.pf"}
              /\ command.workdir = call.workdir
              /\ command.propath = propathStr
    /\ (call.name = "RunABLUnitOnFile" /\ WriteFailed) =>
          /\ ~Happened("spawn", "run_ABLUNIT.bat")
          /\ ~Happened("writeFileSync", "extra.pf")

\* The script spawned for a configuration with a database connection and
\* extra parameters, both found in the scratch folder.
C4_Witness ==
    /\ Spawned
    /\ scratch[call.workdir].dbconn = File(<<"a", " ", "b">>)
    /\ scratch[call.workdir].extra = File(<<"-", "q">>)
    /\ command.propath = Str(<<"s">> \o Comma \o DlcBat)

\* C5 (as claimed): results.xml is loaded only by the close callback, and only
\* when the process exited with code 0.
C5_LoadOnlyOnSuccess ==
    Happened("loadAblUnitResults", "results.xml") => (call.name = "close" /\ call.code = 0)

\* A step of the close callback, and what it found in the scratch folder.
CloseStep == call'.name = "close" /\ \E w \in Workdirs : procs'[w] < procs[w]
ShowsError(ev) == \E i \in 1..Len(ev) : ev[i][1] = "showErrorMessage"
MalformedConfig == RanCommand /\ cfgFile.exists /\ ~cfgFile.content.valid

\* C9 (as claimed): a missing results.xml, a malformed openedge-project.json
\* and a non-zero exit code each lead to showErrorMessage.
C9_ErrorsNotified ==
    [][/\ CloseStep =>
            ((~scratch[call'.workdir].results.exists \/ call'.code # 0) => ShowsError(events'))
       /\ (MalformedConfig => ShowsError(events))']_vars

\* C9 (amended): the close callback shows an error notification exactly when
\* results.xml is missing; a non-zero exit code is announced by an information
\* notification; a malformed openedge-project.json raises no notification of
\* its own: the command then shows an error only for an unset DLC or a failed
\* write, as it does for any other configuration.
C9_WhatIsNotified ==
    [][/\ CloseStep =>
            /\ ShowsError(events') <=> ~scratch[call'.workdir].results.exists
            /\ ~scratch[call'.workdir].results.exists =>
                   <<"showErrorMessage", "results.xml not found">> \in
                       {events'[i] : i \in 1..Len(events')}
            /\ call'.code # 0 =>
                   events'[1] = <<"showInformationMessage", "Run completed with exit code">>
       /\ (MalformedConfig =>
              /\ ~call.escaped
              /\ ShowsError(events) <=> (~dlcEnv \/ WriteFailed)
              /\ \A i \in 1..Len(events) :
                    events[i][1] = "showErrorMessage" =>
                        events[i][2] \in {"Environment variable DLC is not set",
                                          "Failed to write to .ablunitrunner folder"})']_vars

\* The process exited with code 1 and left no results.xml: the error
\* notification follows the information notification.
C9_Witness ==
    /\ call.name = "close" /\ call.code = 1
    /\ ~scratch[call.workdir].results.exists
    /\ Before(<<"showInformationMessage", "Run completed with exit code">>,
              <<"showErrorMessage", "results.xml not found">>)

\* C10 (as claimed): no exception escapes the command handler or the close
\* callback, whatever openedge-project.json and results.xml hold.
C10_NothingEscapes == ~call.escaped

\* ----------------------------------------------- the report as a document
\* The report the latest close callback loaded, under a document node.
Loaded == call.name = "close" /\ Happened("loadAblUnitResults", "results.xml")
Completed == Loaded /\ run = "ended"
LoadedFile == scratch[call.workdir].results.content
Document == Elem("#document", {}, IF LoadedFile.readable THEN <<LoadedFile.doc>> ELSE <<>>)

RECURSIVE Paths(_)
\* The positions of a node and its descendants: sequences of child numbers.
Paths(node) ==
    {<<>>} \cup UNION {{<<i>> \o p : p \in Paths(node.kids[i])} : i \in 1..Len(node.kids)}

RECURSIVE NodeAt(_, _)
NodeAt(node, p) == IF p = <<>> THEN node ELSE NodeAt(node.kids[Head(p)], Tail(p))

Parent(p) == SubSeq(p, 1, Len(p) - 1)
IsPrefix(p, q) == Len(p) < Len(q) /\ SubSeq(q, 1, Len(p)) = p

\* Document order: a node comes before its descendants and before everything
\* after it.
DocBefore(p, q) ==
    \/ IsPrefix(p, q)
    \/ \E k \in 1..Len(p) :
          /\ k <= Len(q) /\ p[k] < q[k]
          /\ SubSeq(p, 1, k - 1) = SubSeq(q, 1, k - 1)

IsElement(node, tag) == node.nodeType = 1 /\ node.tag = tag
Attr(node, name) ==
    IF \E a \in node.attrs : a[1] = name
    THEN (CHOOSE a \in node.attrs : a[1] = name)[2] ELSE <<>>

SuitePaths == {p \in Paths(Document) : IsElement(NodeAt(Document, p), "testsuite")}
TopSuitePaths == {p \in SuitePaths : \A q \in SuitePaths : ~IsPrefix(q, p)}
\* the direct testcase children of the suite at s
CasePaths(s) ==
    {s \o <<i>> : i \in {k \in 1..Len(NodeAt(Document, s).kids) :
                             IsElement(NodeAt(Document, s).kids[k], "testcase")}}
AllCasePaths == UNION {CasePaths(s) : s \in SuitePaths}

Status(c) == Attr(NodeAt(Document, c), "status")
NestedTag(c) == IF Status(c) = <<"Error">> THEN "error" ELSE "failure"
\* the elements inside testcase c that carry its error: those named after its status
NestedPaths(c) ==
    {c \o q : q \in {r \in Paths(NodeAt(Document, c)) :
                        r # <<>> /\ IsElement(NodeAt(NodeAt(Document, c), r), NestedTag(c))}}
\* A testcase with status Error or Failure and no such element: the load stops at it.
Stops(c) == Status(c) \in {<<"Error">>, <<"Failure">>} /\ NestedPaths(c) = {}

\* The order in which the load visits the testcases: suite by suite in
\* document order, the direct testcases of a suite in their order.
VisitedBefore(c, d) ==
    IF Parent(c) = Parent(d) THEN c[Len(c)] < d[Len(d)] ELSE DocBefore(Parent(c), Parent(d))

ReachedSuites ==
    {s \in SuitePaths : ~\E c \in AllCasePaths : Stops(c) /\ DocBefore(Parent(c), s)}
ReachedCases(s) ==
    {c \in CasePaths(s) : ~\E d \in AllCasePaths : Stops(d) /\ VisitedBefore(d, c)}

SuiteIdOf(s) == Attr(NodeAt(Document, s), "id")
SuiteLabelOf(s) ==
    IF Attr(NodeAt(Document, s), "classname") = <<>> THEN <<"UnnamedSuite">>
    ELSE Attr(NodeAt(Document, s), "classname")
TestNameOf(c) ==
    IF Attr(NodeAt(Document, c), "name") = <<>> THEN <<"UnnamedTest">>
    ELSE Attr(NodeAt(Document, c), "name")
TestIdOf(c) == SuiteIdOf(Parent(c)) \o <<":">> \o TestNameOf(c)

Decimal(s) ==
    LET digit == [c \in {"0", "1", "2", "3", "4", "5", "6", "7", "8", "9"} |->
                     CASE c = "0" -> 0 [] c = "1" -> 1 [] c = "2" -> 2 [] c = "3" -> 3
                       [] c = "4" -> 4 [] c = "5" -> 5 [] c = "6" -> 6 [] c = "7" -> 7
                       [] c = "8" -> 8 [] c = "9" -> 9]
        RECURSIVE from(_, _)
        from(i, acc) == IF i > Len(s) THEN acc ELSE from(i + 1, 10 * acc + digit[s[i]])
    IN  from(1, 0)
\* the 0-based line of a testcase: its 1-based line attribute minus one, 0 without one
AnchorOf(c) ==
    IF Attr(NodeAt(Document, c), "line") = <<>> THEN 0
    ELSE Decimal(Attr(NodeAt(Document, c), "line")) - 1

\* The last of a non-empty set of suites in document order, of cases in a suite.
LastSuite(S) == CHOOSE s \in S : \A t \in S : t = s \/ DocBefore(t, s)
LastCase(S) == CHOOSE c \in S : \A d \in S : d = c \/ VisitedBefore(d, c)

\* C6 (as claimed): after a completed load the root items are one entry per
\* top-level testsuite element, keyed by its id and labelled with its
\* classname; nested testsuite elements produce none; nothing older remains.
C6_TopLevelSuitesOnly ==
    Completed =>
        /\ Cardinality(items) = Cardinality(TopSuitePaths)
        /\ {<<x.id, x.label>> : x \in items} =
               {<<SuiteIdOf(s), SuiteLabelOf(s)>> : s \in TopSuitePaths}

\* C6 (amended): after loadAblUnitResults the root items are one entry per
\* distinct id among the testsuite elements the load reached, at any depth
\* (all of them, unless the load stopped at a testcase without its
\* error/failure element or could not read the file); the entry is labelled
\* with the classname ("UnnamedSuite" without one) of the last such element
\* with that id; nothing of an earlier load remains.
C6_AllSuitesById ==
    Loaded =>
        /\ {x.id : x \in items} = {SuiteIdOf(s) : s \in ReachedSuites}
        /\ Cardinality(items) = Cardinality({SuiteIdOf(s) : s \in ReachedSuites})
        /\ \A x \in items :
              x.label = SuiteLabelOf(LastSuite({s \in ReachedSuites : SuiteIdOf(s) = x.id}))
        /\ Completed => ReachedSuites = SuitePaths

\* A completed load of a report with a nested suite: three root entries, one
\* of them the nested suite's.
C6_Witness ==
    /\ Completed
    /\ Cardinality(items) = 3
    /\ \E x \in items : x.id = <<"1">> /\ x.label = <<"B">>
    /\ \E s \in SuitePaths : SuiteIdOf(s) = <<"1">> /\ s \notin TopSuitePaths

\* C7 (as claimed): each suite entry has one leaf per direct testcase child of
\* its testsuite element, with id <suiteId>:<testName> and the line attribute
\* minus one (0 without one) as anchor.
C7_LeafPerTestCase ==
    Completed =>
        \A x \in items :
            LET s == LastSuite({t \in SuitePaths : SuiteIdOf(t) = x.id})
            IN  /\ Cardinality(x.children) = Cardinality(CasePaths(s))
                /\ {<<y.id, y.line>> : y \in x.children} =
                       {<<TestIdOf(c), AnchorOf(c)>> : c \in CasePaths(s)}

\* C7 (amended): each suite entry has one leaf per distinct test name among
\* the direct testcase children the load reached of its testsuite element
\* (the last reached one with the entry's id); the leaf has the id
\* <suiteId>:<testName> and the anchor of the last such testcase with that
\* name: its line attribute minus one, 0 without one.  Testcases deeper in
\* the tree produce no leaf under that suite.
C7_LeafPerTestName ==
    Loaded =>
        \A x \in items :
            LET s == LastSuite({t \in ReachedSuites : SuiteIdOf(t) = x.id})
                cases == ReachedCases(s)
            IN  /\ {y.id : y \in x.children} = {TestIdOf(c) : c \in cases}
                /\ Cardinality(x.children) = Cardinality({TestNameOf(c) : c \in cases})
                /\ \A y \in x.children :
                      y.line = AnchorOf(LastCase({c \in cases : TestIdOf(c) = y.id}))
                /\ Completed => cases = CasePaths(s)

\* A suite entry with two leaves, one anchored at line 2 (line="3"), one at
\* line 0 (no line attribute), whose suite also holds a deeper testcase.
C7_Witness ==
    /\ Completed
    /\ \E x \in items :
          /\ x.id = <<"0">>
          /\ Cardinality(x.children) = 1
          /\ \E y \in x.children : y.id = <<"0", ":", "t2">> /\ y.line = 6
    /\ \E s \in TopSuitePaths :
          /\ SuiteIdOf(s) = <<"0">>
          /\ Cardinality(CasePaths(s)) = 1
          /\ \E i \in 1..Len(NodeAt(Document, s).kids) :
                NodeAt(Document, s).kids[i].tag = "properties"

\* The position the load gives a testcase: the number of its suite among the
\* testsuite elements, and its number among the suite's direct testcases.
VisitOf(c) ==
    <<1 + Cardinality({t \in SuitePaths : DocBefore(t, Parent(c))}),
      1 + Cardinality({d \in CasePaths(Parent(c)) : d[Len(d)] < c[Len(c)]})>>
OutcomesOf(c) == {i \in 1..Len(outcomes) : outcomes[i].node = VisitOf(c)}
FirstNested(c) == CHOOSE e \in NestedPaths(c) : \A f \in NestedPaths(c) : f = e \/ DocBefore(e, f)
OrDefault(v, default) == IF v = <<>> THEN default ELSE v

\* C8 (as claimed): every testcase gets exactly one outcome: passed when its
\* status is "Success", failed for every other or missing status.
C8_EveryCaseClassified ==
    Completed =>
        \A c \in AllCasePaths :
            /\ Cardinality(OutcomesOf(c)) = 1
            /\ \A i \in OutcomesOf(c) :
                  outcomes[i].result = IF Status(c) = <<"Success">> THEN "passed" ELSE "failed"

\* C8 (amended): every direct testcase of a testsuite element that the load
\* reached gets at most one outcome: passed when its status is "Success";
\* failed when its status is "Error" or "Failure" and it holds an element
\* named after it, with that element's message and type ("Test failed",
\* "Unknown error" without them); no outcome for any other or missing status,
\* for the testcase the load stopped at, and for those after it.
C8_ClassifiedByStatus ==
    Loaded =>
        /\ \A c \in AllCasePaths :
              IF c \in ReachedCases(Parent(c)) /\ ~Stops(c)
                 /\ Status(c) \in {<<"Success">>, <<"Error">>, <<"Failure">>}
              THEN /\ Cardinality(OutcomesOf(c)) = 1
                   /\ \A i \in OutcomesOf(c) :
                         /\ outcomes[i].test = TestIdOf(c)
                         /\ IF Status(c) = <<"Success">>
                            THEN outcomes[i].result = "passed"
                            ELSE /\ outcomes[i].result = "failed"
                                 /\ outcomes[i].message =
                                        OrDefault(Attr(NodeAt(Document, FirstNested(c)), "message"),
                                                  <<"Test failed">>)
                                 /\ outcomes[i].type =
                                        OrDefault(Attr(NodeAt(Document, FirstNested(c)), "type"),
                                                  <<"Unknown error">>)
              ELSE OutcomesOf(c) = {}
        /\ \A i \in 1..Len(outcomes) : \E c \in AllCasePaths : outcomes[i].node = VisitOf(c)

\* A completed load that reported one test passed, one failed with the
\* message and type of its failure element, and left an ignored test without
\* an outcome.
C8_Witness ==
    /\ Completed
    /\ \E i, j \in 1..Len(outcomes) :
          /\ outcomes[i].result = "passed"
          /\ outcomes[j].result = "failed"
          /\ outcomes[j].message = <<"m">> /\ outcomes[j].type = <<"T">>
    /\ \E c \in AllCasePaths : Status(c) = <<"Ignored">> /\ OutcomesOf(c) = {}

\* ------------------------------------------------------------ the test run
\* The latest close callback created a test run (controller.createTestRun).
RunCreated == call.name = "close" /\ Happened("createTestRun", "")

\* loadAblUnitResults throws on the loaded file: it cannot be read, or the load
\* reaches a testcase with status Error or Failure that lacks the element
\* named after its status.
LoadThrows ==
    \/ ~LoadedFile.readable
    \/ \E c \in AllCasePaths : Stops(c)

\* C11 (as claimed): every test run created by readResultsXml has been ended
\* (run.end()) when the close callback returns, whatever the report holds; no
\* run is left open.
C11_EveryRunEnded ==
    RunCreated => (run = "ended" /\ Happened("run.end", ""))

\* What the code does instead: the run is ended exactly when loadAblUnitResults
\* returns normally; when it throws, run.end() is skipped, the close listener
\* logs the exception and the run stays open.
C11_EndedUnlessLoadThrows ==
    RunCreated =>
        /\ LoadThrows <=> run = "open"
        /\ ~LoadThrows <=> (run = "ended" /\ Happened("run.end", ""))
        /\ LoadThrows => Happened("console.error", "Failed to execute onCloseCommand")

====
